---- MODULE Spec2Model ----
(***************************************************************************)
(* A model of dictify-js: parse_file (src/dictify_js/__init__.py) driving  *)
(* Parser (src/dictify_js/parser.py).  The text is a sequence of one-      *)
(* character strings and the cursor `index` is 0-based, as in the source.  *)
(* The readers that touch only the cursor are operators from an index to a *)
(* result record; skip_invalid and parse_structure, which also move the    *)
(* depth counters, are stepped: one loop iteration of the source per step. *)
(***************************************************************************)
EXTENDS Integers, Sequences, FiniteSets, TLC

VARIABLES
    text,           \* Parser.text
    index,          \* Parser.index
    brace_depth,    \* Parser.brace_depth
    bracket_depth,  \* Parser.bracket_depth
    results,        \* parse_file's results dict, a sequence of [name, val]
    pc,             \* control position: driver, skip, loop, ret, assigned, done
    stack,          \* the active parse_structure frames, innermost last
    sk,             \* the locals of the active skip_invalid call
    ret,            \* what the last parse_structure call returned
    asg,            \* the locals of the active try_parse_assignment call
    inp             \* how the input text was put together (never read by the parser)

vars == <<text, index, brace_depth, bracket_depth, results, pc, stack, sk, ret, asg, inp>>

----------------------------------------------------------------------------
(* Characters *)

WS == {" ", "\t", "\n", "\r"}

Digits == {"0", "1", "2", "3", "4", "5", "6", "7", "8", "9"}

HexDigits == Digits \cup {"a", "b", "c", "d", "e", "f", "A", "B", "C", "D", "E", "F"}

Letters ==
    {"a", "b", "c", "d", "e", "f", "g", "h", "i", "j", "k", "l", "m", "n", "o", "p", "q",
     "r", "s", "t", "u", "v", "w", "x", "y", "z", "A", "B", "C", "D", "E", "F", "G", "H",
     "I", "J", "K", "L", "M", "N", "O", "P", "Q", "R", "S", "T", "U", "V", "W", "X", "Y",
     "Z"}

\* The character U+0060 (a TLA+ string cannot hold it): the text holds this
\* string where the source text has a backtick.
Backtick == "<backtick>"

\* str.isalpha() and str.isalnum() on one ASCII character ("" is neither)
isalpha(c) == c \in Letters

isalnum(c) == c \in Letters \cup Digits

isdigit(c) == c \in Digits

\* Python's `c in "xyz"` for a string c of length at most 1: the empty string
\* (what `current` yields at end of input) is a substring of every string.
InStr(c, S) == c = "" \/ c \in S

DigitVal(c) ==
    CASE c = "0" -> 0 [] c = "1" -> 1 [] c = "2" -> 2 [] c = "3" -> 3 [] c = "4" -> 4
      [] c = "5" -> 5 [] c = "6" -> 6 [] c = "7" -> 7 [] c = "8" -> 8 [] c = "9" -> 9
      [] c \in {"a", "A"} -> 10 [] c \in {"b", "B"} -> 11 [] c \in {"c", "C"} -> 12
      [] c \in {"d", "D"} -> 13 [] c \in {"e", "E"} -> 14 [] c \in {"f", "F"} -> 15

----------------------------------------------------------------------------
(* Cursor *)

length == Len(text)

\* Parser.current at cursor i
current(i) == IF i < length THEN text[i + 1] ELSE ""

end_of_file(i) == i >= length

\* Parser.startswith at cursor i
startswith(i, token) ==
    /\ i + Len(token) <= length
    /\ \A k \in 1..Len(token) : text[i + k] = token[k]

\* text[a:b] for 0 <= a
Slice(a, b) == IF b > a THEN SubSeq(text, a + 1, IF b < length THEN b ELSE length) ELSE <<>>

\* the cursor after `while not eof and current in S: advance()`
RECURSIVE ScanWhile(_, _)
ScanWhile(i, S) == IF i < length /\ text[i + 1] \in S THEN ScanWhile(i + 1, S) ELSE i

----------------------------------------------------------------------------
(* skip_to_valid: whitespace, // comments, /* */ comments *)

RECURSIVE skip_line(_)
skip_line(i) == IF i < length /\ text[i + 1] # "\n" THEN skip_line(i + 1) ELSE i

RECURSIVE skip_block(_)
skip_block(i) ==
    IF i < length - 1
    THEN IF startswith(i, <<"*", "/">>) THEN i + 2 ELSE skip_block(i + 1)
    ELSE i

\* a variant of skip_to_valid that skips whitespace only
RECURSIVE skip_whitespace(_)
skip_whitespace(i) ==
    IF end_of_file(i) THEN i
    ELSE IF text[i + 1] \in WS THEN skip_whitespace(i + 1)
    ELSE i

RECURSIVE skip_to_valid(_)
skip_to_valid(i) ==
    IF end_of_file(i) THEN i
    ELSE IF text[i + 1] \in WS THEN skip_to_valid(i + 1)
    ELSE IF startswith(i, <<"/", "/">>) THEN skip_to_valid(skip_line(i + 2))
    ELSE IF startswith(i, <<"/", "*">>) THEN skip_to_valid(skip_block(i + 2))
    ELSE i

----------------------------------------------------------------------------
(* Values.  Every value is a record [t, n, e, s, m]:                       *)
(*   t = "int"   n the integer                                             *)
(*   t = "float" n * 10^e, n not divisible by 10 unless 0                  *)
(*   t = "str"   s the characters                                          *)
(*   t = "bool"  n = 1 for True, 0 for False                               *)
(*   t = "null"  Python None stored for an explicit null                   *)
(*   t = "obj"   m the dict's items [k, v] in insertion order              *)
(*   t = "arr"   m the list's elements                                     *)
(* A key is a record [t, n, e, s] with t in int, float, str.               *)

Val(t, n, e, s, m) == [t |-> t, n |-> n, e |-> e, s |-> s, m |-> m]

IntVal(n) == Val("int", n, 0, <<>>, <<>>)

FloatVal(n, e) == Val("float", n, e, <<>>, <<>>)

StrVal(s) == Val("str", 0, 0, s, <<>>)

BoolVal(b) == Val("bool", IF b THEN 1 ELSE 0, 0, <<>>, <<>>)

NullVal == Val("null", 0, 0, <<>>, <<>>)

ObjVal(m) == Val("obj", 0, 0, <<>>, m)

ArrVal(m) == Val("arr", 0, 0, <<>>, m)

\* the absence of a value (a read that returned None)
NoVal == Val("none", 0, 0, <<>>, <<>>)

Key(t, n, e, s) == [t |-> t, n |-> n, e |-> e, s |-> s]

StrKey(s) == Key("str", 0, 0, s)

NoKey == Key("none", 0, 0, <<>>)

----------------------------------------------------------------------------
(* read_string *)

\* a variant of escape_map that keeps every escaped character as it is
escape_verbatim(c) == c

escape_map(c) ==
    CASE c = "n" -> "\n" [] c = "t" -> "\t" [] c = "r" -> "\r" [] OTHER -> c

RECURSIVE read_string_loop(_, _, _, _)
read_string_loop(i, quote, characters_list, escape) ==
    IF end_of_file(i) THEN [ok |-> FALSE, s |-> <<>>, idx |-> i]
    ELSE LET character == text[i + 1] IN
         IF escape
         THEN read_string_loop(i + 1, quote, Append(characters_list, escape_map(character)), FALSE)
         ELSE IF character = "\\" THEN read_string_loop(i + 1, quote, characters_list, TRUE)
         ELSE IF character = quote THEN [ok |-> TRUE, s |-> characters_list, idx |-> i + 1]
         ELSE read_string_loop(i + 1, quote, Append(characters_list, character), FALSE)

read_string(i) ==
    LET quote == current(i) IN
    IF ~InStr(quote, {"\"", "'"}) THEN [ok |-> FALSE, s |-> <<>>, idx |-> i]
    ELSE read_string_loop(i + 1, quote, <<>>, FALSE)

----------------------------------------------------------------------------
(* read_number *)

\* int(text[a:b], base) for a run of digits of that base
RECURSIVE RadixVal(_, _, _)
RadixVal(a, b, base) ==
    IF b <= a THEN 0 ELSE RadixVal(a, b - 1, base) * base + DigitVal(text[b])

RECURSIVE Pow10(_)
Pow10(k) == IF k <= 0 THEN 1 ELSE 10 * Pow10(k - 1)

\* float(): n * 10^e with the trailing zeros of n moved into e
RECURSIVE NormFloat(_, _)
NormFloat(n, e) ==
    IF n = 0 THEN FloatVal(0, 0)
    ELSE IF n % 10 = 0 THEN NormFloat(n \div 10, e + 1)
    ELSE FloatVal(n, e)

NumFail(i) == [ok |-> FALSE, v |-> NoVal, idx |-> i]

NumOk(v, i) == [ok |-> TRUE, v |-> v, idx |-> i]

read_radix(start, i, digits, base) ==
    LET first == i + 2
        last == ScanWhile(first, digits)
        sign == IF i > start THEN -1 ELSE 1
    IN  IF last > first THEN NumOk(IntVal(sign * RadixVal(first, last, base)), last)
        ELSE NumFail(last)

read_decimal(start, i) ==
    LET sign == IF i > start THEN -1 ELSE 1
        d1 == ScanWhile(i, Digits)
        has_dot == current(d1) = "."
        d2 == IF has_dot THEN ScanWhile(d1 + 1, Digits) ELSE d1
        frac == IF has_dot THEN d2 - (d1 + 1) ELSE 0
        has_digit == d1 > i \/ frac > 0
        has_exp == InStr(current(d2), {"e", "E"})
        e1 == d2 + 1
        exp_start == IF InStr(current(e1), {"+", "-"}) THEN e1 + 1 ELSE e1
        exp_end == ScanWhile(exp_start, Digits)
        exp_sign == IF current(e1) = "-" THEN -1 ELSE 1
        mant == RadixVal(i, d1, 10) * Pow10(frac) + RadixVal(d1 + 1, d2, 10)
        exp == IF has_exp THEN exp_sign * RadixVal(exp_start, exp_end, 10) ELSE 0
    IN  IF has_exp /\ exp_end = exp_start THEN NumFail(start)
        ELSE IF ~has_digit THEN NumFail(start)
        ELSE IF has_dot \/ has_exp
             THEN NumOk(NormFloat(sign * mant, exp - frac), IF has_exp THEN exp_end ELSE d2)
             ELSE NumOk(IntVal(sign * RadixVal(i, d1, 10)), d2)

\* a variant of read_number whose failures leave the cursor where they arose
read_number_unrestored(start) ==
    LET i == IF current(start) = "-" THEN start + 1 ELSE start IN
    IF i > start /\ (end_of_file(i) \/ ~(isdigit(current(i)) \/ current(i) = "."))
    THEN NumFail(i)
    ELSE IF startswith(i, <<"0", "x">>) \/ startswith(i, <<"0", "X">>)
         THEN read_radix(start, i, HexDigits, 16)
    ELSE IF startswith(i, <<"0", "b">>) \/ startswith(i, <<"0", "B">>)
         THEN read_radix(start, i, {"0", "1"}, 2)
    ELSE IF startswith(i, <<"0", "o">>) \/ startswith(i, <<"0", "O">>)
         THEN read_radix(start, i, {"0", "1", "2", "3", "4", "5", "6", "7"}, 8)
    ELSE IF read_decimal(start, i).ok THEN read_decimal(start, i)
    ELSE NumFail(ScanWhile(ScanWhile(i, Digits \cup {"."}), {"e", "E", "+", "-"}))

read_number(start) ==
    LET i == IF current(start) = "-" THEN start + 1 ELSE start IN
    IF i > start /\ (end_of_file(i) \/ ~(isdigit(current(i)) \/ current(i) = "."))
    THEN NumFail(start)
    ELSE IF startswith(i, <<"0", "x">>) \/ startswith(i, <<"0", "X">>)
         THEN read_radix(start, i, HexDigits, 16)
    ELSE IF startswith(i, <<"0", "b">>) \/ startswith(i, <<"0", "B">>)
         THEN read_radix(start, i, {"0", "1"}, 2)
    ELSE IF startswith(i, <<"0", "o">>) \/ startswith(i, <<"0", "O">>)
         THEN read_radix(start, i, {"0", "1", "2", "3", "4", "5", "6", "7"}, 8)
    ELSE read_decimal(start, i)

----------------------------------------------------------------------------
(* read_identifier, read_key, read_value *)

IdentStart(c) == isalpha(c) \/ InStr(c, {"_", "$"})

IdentChars == Letters \cup Digits \cup {"_", "$"}

\* [ok, name, idx]; at end of input the source returns the empty (falsy) string
read_identifier(i0) ==
    LET i == skip_to_valid(i0) IN
    IF ~IdentStart(current(i)) THEN [ok |-> FALSE, name |-> <<>>, idx |-> i]
    ELSE LET j == ScanWhile(i, IdentChars) IN
         [ok |-> j > i, name |-> Slice(i, j), idx |-> j]

KeyFail(i) == [ok |-> FALSE, key |-> NoKey, idx |-> i]

read_key(i0) ==
    LET i == skip_to_valid(i0)
        c == current(i)
    IN  IF InStr(c, {"\"", "'"})
        THEN LET r == read_string(i) IN
             IF r.ok THEN [ok |-> TRUE, key |-> StrKey(r.s), idx |-> r.idx] ELSE KeyFail(r.idx)
        ELSE IF c = "[" THEN KeyFail(i)
        ELSE IF isdigit(c)
        THEN LET r == read_number(i) IN
             IF r.ok THEN [ok |-> TRUE, key |-> Key(r.v.t, r.v.n, r.v.e, <<>>), idx |-> r.idx]
             ELSE KeyFail(r.idx)
        ELSE IF IdentStart(c)
        THEN LET j == ScanWhile(i, IdentChars) IN
             [ok |-> TRUE, key |-> StrKey(Slice(i, j)), idx |-> j]
        ELSE KeyFail(i)

\* the keyword tests of read_value, in the source's order
keyword_value(i) ==
    IF startswith(i, <<"t", "r", "u", "e">>) THEN [tag |-> "value", v |-> BoolVal(TRUE), idx |-> i + 4]
    ELSE IF startswith(i, <<"f", "a", "l", "s", "e">>)
         THEN [tag |-> "value", v |-> BoolVal(FALSE), idx |-> i + 5]
    ELSE IF startswith(i, <<"n", "u", "l", "l">>) THEN [tag |-> "value", v |-> NullVal, idx |-> i + 4]
    ELSE [tag |-> "fail", v |-> NoVal, idx |-> i]

\* [tag, v, idx]: tag "value" (v read, an explicit null being NullVal), "fail"
\* (the source returns None) or "struct" (the source calls parse_structure at idx)
read_value(i0) ==
    LET i == skip_to_valid(i0)
        character == current(i)
    IN  IF InStr(character, {"\"", "'"})
        THEN LET r == read_string(i) IN
             IF r.ok THEN [tag |-> "value", v |-> StrVal(r.s), idx |-> r.idx]
             ELSE [tag |-> "fail", v |-> NoVal, idx |-> r.idx]
        ELSE IF character = Backtick THEN [tag |-> "fail", v |-> NoVal, idx |-> i]
        ELSE IF isdigit(character) \/ character = "-"
        THEN LET r == read_number(i) IN
             IF r.ok THEN [tag |-> "value", v |-> r.v, idx |-> r.idx]
             ELSE [tag |-> "fail", v |-> NoVal, idx |-> r.idx]
        ELSE LET k == keyword_value(i) IN
             IF k.tag = "value" THEN k
             ELSE IF character \in {"{", "["} THEN [tag |-> "struct", v |-> NoVal, idx |-> i]
             ELSE [tag |-> "fail", v |-> NoVal, idx |-> i]

----------------------------------------------------------------------------
(* dict and list updates *)

\* Python's key equality: 1 == 1.0, and a number never equals a string
KeyEq(a, b) ==
    IF a.t = "str" \/ b.t = "str" THEN a.t = b.t /\ a.s = b.s
    ELSE \/ a.e >= 0 /\ b.e >= 0 /\ a.n * Pow10(a.e) = b.n * Pow10(b.e)
         \/ a.e = b.e /\ a.n = b.n

HasKey(m, key) == \E j \in 1..Len(m) : KeyEq(m[j].k, key)

\* result[key] = value: an existing key keeps its place and its first spelling
dict_set(m, key, value) ==
    IF HasKey(m, key)
    THEN [j \in 1..Len(m) |-> IF KeyEq(m[j].k, key) THEN [k |-> m[j].k, v |-> value] ELSE m[j]]
    ELSE Append(m, [k |-> key, v |-> value])

\* result[key] for a key the dict holds
dict_get(m, key) == m[CHOOSE j \in 1..Len(m) : KeyEq(m[j].k, key)].v

----------------------------------------------------------------------------
(* The frames of parse_structure and the locals of skip_invalid *)

\* A frame: is_dict, result (the items or elements so far), key (the key whose
\* value a nested call is reading), b0 and k0 (brace_depth and bracket_depth
\* when the call was made), start (the index of the opener), it (the index at
\* which the current iteration of the member loop began, -1 before the first).
NewFrame(is_dict, i, b, k) ==
    [is_dict |-> is_dict, result |-> <<>>, key |-> NoKey, b0 |-> b, k0 |-> k,
     start |-> i, it |-> -1]

Top == stack[Len(stack)]

Below == SubSeq(stack, 1, Len(stack) - 1)

end_character(f) == IF f.is_dict THEN "}" ELSE "]"

member_stops(f) == IF f.is_dict THEN {",", "}"} ELSE {",", "]"}

\* None for container_end and current_quote is "", for a starting depth -1
NewSkip(stop_chars, container_end, caller, b, k) ==
    [depth |-> 0, current_quote |-> "", stop_chars |-> stop_chars,
     container_end |-> container_end,
     starting_brace_depth |-> IF container_end = "}" THEN b ELSE -1,
     starting_bracket_depth |-> IF container_end = "]" THEN k ELSE -1,
     caller |-> caller]

NoSkip == NewSkip({}, "", "", 0, 0)

NoRet ==
    [ok |-> FALSE, val |-> NoVal, is_dict |-> FALSE, b0 |-> 0, k0 |-> 0, via |-> "",
     start |-> -1]

NoAsg ==
    [saved_index |-> 0, var_name |-> <<>>, b0 |-> 0, k0 |-> 0, ok |-> FALSE, val |-> NoVal]

\* a counter after an opener
open_depth(d) == d + 1

\* variants of skip_close_depth: a closer that leaves the counter alone, and
\* a decrement that is not clamped
closer_uncounted(d) == d

unclamped_close_depth(d) == d - 1

\* a counter after a closer met by skip_invalid: max(0, d - 1)
skip_close_depth(d) == IF d - 1 > 0 THEN d - 1 ELSE 0

\* a counter after parse_structure's finally: max(0, d - 1)
finally_depth(d) == IF d - 1 > 0 THEN d - 1 ELSE 0

Upd(i, b, k, p, st, s, r, a) ==
    /\ index' = i
    /\ brace_depth' = b
    /\ bracket_depth' = k
    /\ pc' = p
    /\ stack' = st
    /\ sk' = s
    /\ ret' = r
    /\ asg' = a
    /\ UNCHANGED <<text, results, inp>>

----------------------------------------------------------------------------
(* One iteration of parse_structure's member loop, as what it ends in:     *)
(*   continue  the loop goes round again at idx                            *)
(*   return    the call returns result (ok) or None                        *)
(*   skip      skip_invalid is called at idx                               *)
(*   call      read_value calls parse_structure at idx                     *)

Continue(i, result) ==
    [o |-> "continue", ok |-> TRUE, idx |-> i, result |-> result, key |-> NoKey, via |-> ""]

Return(ok, i, result, via) ==
    [o |-> "return", ok |-> ok, idx |-> i, result |-> result, key |-> NoKey, via |-> via]

Skip(i, result) ==
    [o |-> "skip", ok |-> TRUE, idx |-> i, result |-> result, key |-> NoKey, via |-> ""]

Call(i, result, key) ==
    [o |-> "call", ok |-> TRUE, idx |-> i, result |-> result, key |-> key, via |-> ""]

\* result[key] = value, or result.append(value)
store(f, key, value) ==
    IF f.is_dict THEN dict_set(f.result, key, value) ELSE Append(f.result, value)

\* after a stored member: a comma, the closer, or unexpected content
after_member(f, result, i) ==
    LET j == skip_to_valid(i) IN
    IF current(j) = "," THEN Continue(j + 1, result)
    ELSE IF current(j) = end_character(f) THEN Return(TRUE, j + 1, result, "closer")
    ELSE Skip(j, result)

\* value = self.read_value() and what is done with it
member_value(f, key, i) ==
    LET v == read_value(i) IN
    IF v.tag = "struct" THEN Call(v.idx, f.result, key)
    ELSE IF v.tag = "value" THEN after_member(f, store(f, key, v.v), v.idx)
    ELSE Skip(v.idx, f.result)

loop_iteration(f, i0) ==
    LET i == skip_to_valid(i0) IN
    IF current(i) = end_character(f) THEN Return(TRUE, i + 1, f.result, "closer")
    ELSE IF end_of_file(i) THEN Return(FALSE, i, f.result, "eof")
    ELSE IF f.is_dict
    THEN LET key == read_key(i) IN
         IF ~key.ok THEN Skip(key.idx, f.result)
         ELSE LET j == skip_to_valid(key.idx) IN
              IF current(j) # ":" THEN Skip(j, f.result)
              ELSE member_value(f, key.key, j + 1)
    ELSE member_value(f, NoKey, i)

\* the caller's iteration goes on with what the nested parse_structure returned
resume_iteration(f, r, i) ==
    IF r.ok THEN after_member(f, store(f, f.key, r.val), i) ELSE Skip(i, f.result)

----------------------------------------------------------------------------
(* Entering and leaving parse_structure *)

\* parse_structure up to its loop: `below` are the caller's frames
parse_structure_enter(below, i0, b, k, a) ==
    LET i == skip_to_valid(i0)
        open_character == current(i)
        is_dict == open_character = "{"
    IN  IF ~InStr(open_character, {"{", "["})
        THEN Upd(i, b, k, "ret", below, NoSkip, [NoRet EXCEPT !.b0 = b, !.k0 = k, !.start = i], a)
        ELSE Upd(i + 1, IF is_dict THEN open_depth(b) ELSE b,
                 IF is_dict THEN k ELSE open_depth(k), "loop",
                 Append(below, NewFrame(is_dict, i, b, k)), NoSkip, ret, a)

\* a return of frame f, through the finally clause
parse_structure_return(f, below, ok, i, result, via, b, k) ==
    Upd(i, IF f.is_dict THEN finally_depth(b) ELSE b,
        IF f.is_dict THEN k ELSE finally_depth(k), "ret", below, NoSkip,
        [ok |-> ok,
         val |-> IF ~ok THEN NoVal ELSE IF f.is_dict THEN ObjVal(result) ELSE ArrVal(result),
         is_dict |-> f.is_dict, b0 |-> f.b0, k0 |-> f.k0, via |-> via, start |-> f.start],
        asg)

Do(f, below, out, b, k) ==
    CASE out.o = "continue" ->
            Upd(out.idx, b, k, "loop",
                Append(below, [f EXCEPT !.result = out.result, !.key = NoKey]), NoSkip, ret, asg)
      [] out.o = "skip" ->
            Upd(out.idx, b, k, "skip",
                Append(below, [f EXCEPT !.result = out.result, !.key = NoKey]),
                NewSkip(member_stops(f), end_character(f), "struct", b, k), ret, asg)
      [] out.o = "call" ->
            parse_structure_enter(Append(below, [f EXCEPT !.key = out.key]), out.idx, b, k, asg)
      [] out.o = "return" ->
            parse_structure_return(f, below, out.ok, out.idx, out.result, out.via, b, k)

----------------------------------------------------------------------------
(* try_parse_assignment *)

\* a variant of assignment_fail that leaves the cursor where the attempt ended
assignment_fail_unrestored(b, k, a) ==
    Upd(index, b, k, "assigned", <<>>, NoSkip, ret, [a EXCEPT !.ok = FALSE])

\* self.index = saved_index; return None
assignment_fail(b, k, a) ==
    Upd(a.saved_index, b, k, "assigned", <<>>, NoSkip, ret, [a EXCEPT !.ok = FALSE])

\* from `if self.current != "="` to the call of parse_structure
assignment_tail(i, b, k, a) ==
    IF current(i) # "=" THEN assignment_fail(b, k, a)
    ELSE LET j == skip_to_valid(i + 1) IN
         IF ~InStr(current(j), {"{", "["}) THEN assignment_fail(b, k, a)
         ELSE parse_structure_enter(<<>>, j, b, k, a)

keyword_length(i) ==
    IF startswith(i, <<"c", "o", "n", "s", "t">>) THEN 5
    ELSE IF startswith(i, <<"l", "e", "t">>) THEN 3
    ELSE IF startswith(i, <<"v", "a", "r">>) THEN 3
    ELSE 0

try_parse_assignment(saved_index) ==
    LET i0 == skip_to_valid(saved_index)
        kw == keyword_length(i0)
        i1 == i0 + kw
        id == read_identifier(i1)
        i3 == skip_to_valid(id.idx)
        a0 == [NoAsg EXCEPT !.saved_index = saved_index, !.b0 = brace_depth,
                            !.k0 = bracket_depth]
        a == [a0 EXCEPT !.var_name = id.name]
    IN  IF kw = 0 THEN assignment_fail(brace_depth, bracket_depth, a0)
        ELSE IF ~end_of_file(i1) /\ current(i1) \notin WS
             THEN assignment_fail(brace_depth, bracket_depth, a0)
        ELSE IF ~id.ok THEN assignment_fail(brace_depth, bracket_depth, a0)
        ELSE IF current(i3) = ":"
             THEN Upd(i3, brace_depth, bracket_depth, "skip", <<>>,
                      NewSkip({"="}, "", "annot", brace_depth, bracket_depth), ret, a)
        ELSE assignment_tail(i3, brace_depth, bracket_depth, a)

----------------------------------------------------------------------------
(* skip_invalid, one character per step *)

\* a variant of quote_after in which any character closes the region
quote_after_any(current_quote, character) == ""

\* current_quote after a character met inside a quoted region
quote_after(current_quote, character) ==
    IF character = current_quote THEN "" ELSE current_quote

\* a variant of at_stop that takes a stop character at any depth
at_stop_any_depth(depth, character, stop_chars) == character \in stop_chars

\* depth == 0 and character in stop_chars
at_stop(depth, character, stop_chars) == depth = 0 /\ character \in stop_chars

skip_stay(i, s, b, k) == Upd(i, b, k, "skip", stack, s, ret, asg)

\* skip_invalid returns stop_char ("" for None) with the cursor at i
skip_return(stop_char, i, b, k) ==
    IF sk.caller = "struct"
    THEN IF stop_char = end_character(Top)
         THEN parse_structure_return(Top, Below, TRUE, i, Top.result, "recovery", b, k)
         ELSE IF stop_char = ""
         THEN parse_structure_return(Top, Below, FALSE, i, Top.result, "eof", b, k)
         ELSE Upd(i, b, k, "loop", stack, NoSkip, ret, asg)
    ELSE assignment_tail(i - 1, b, k, asg)

is_container_close(character, b, k) ==
    /\ character = sk.container_end
    /\ \/ character = "}" /\ sk.starting_brace_depth # -1 /\ b < sk.starting_brace_depth
       \/ character = "]" /\ sk.starting_bracket_depth # -1 /\ k < sk.starting_bracket_depth

skip_closer(character) ==
    LET b == IF character = "}" THEN skip_close_depth(brace_depth) ELSE brace_depth
        k == IF character = "]" THEN skip_close_depth(bracket_depth) ELSE bracket_depth
    IN  IF sk.depth > 0 THEN skip_stay(index + 1, [sk EXCEPT !.depth = @ - 1], b, k)
        ELSE IF character \in sk.stop_chars
        THEN IF character = sk.container_end /\ ~is_container_close(character, b, k)
             THEN skip_stay(index + 1, sk, b, k)
             ELSE skip_return(character, index + 1, b, k)
        ELSE skip_stay(index + 1, sk, b, k)

skip_invalid ==
    /\ pc = "skip"
    /\ LET character == current(index) IN
       IF end_of_file(index) THEN skip_return("", index, brace_depth, bracket_depth)
       ELSE IF character = "\\" THEN skip_stay(index + 2, sk, brace_depth, bracket_depth)
       ELSE IF sk.current_quote # ""
       THEN skip_stay(index + 1,
                      [sk EXCEPT !.current_quote = quote_after(@, character)],
                      brace_depth, bracket_depth)
       ELSE IF character \in {"\"", "'", Backtick}
       THEN skip_stay(index + 1, [sk EXCEPT !.current_quote = character],
                      brace_depth, bracket_depth)
       ELSE IF character \in {"{", "[", "("}
       THEN skip_stay(index + 1, [sk EXCEPT !.depth = @ + 1],
                      IF character = "{" THEN open_depth(brace_depth) ELSE brace_depth,
                      IF character = "[" THEN open_depth(bracket_depth) ELSE bracket_depth)
       ELSE IF character \in {"}", "]", ")"} THEN skip_closer(character)
       ELSE IF at_stop(sk.depth, character, sk.stop_chars)
       THEN skip_return(character, index + 1, brace_depth, bracket_depth)
       ELSE skip_stay(index + 1, sk, brace_depth, bracket_depth)

----------------------------------------------------------------------------
(* The steps of parse_structure *)

parse_structure ==
    /\ pc = "loop"
    /\ LET f == [Top EXCEPT !.it = index] IN
       Do(f, Below, loop_iteration(f, index), brace_depth, bracket_depth)

\* a nested parse_structure has returned to read_value in the caller's loop
parse_structure_resume ==
    /\ pc = "ret"
    /\ stack # <<>>
    /\ Do(Top, Below, resume_iteration(Top, ret, index), brace_depth, bracket_depth)

\* the outermost parse_structure has returned to try_parse_assignment
try_parse_assignment_return ==
    /\ pc = "ret"
    /\ stack = <<>>
    /\ IF ret.ok
       THEN Upd(index, brace_depth, bracket_depth, "assigned", <<>>, NoSkip, ret,
                [asg EXCEPT !.ok = TRUE, !.val = ret.val])
       ELSE assignment_fail(brace_depth, bracket_depth, asg)

----------------------------------------------------------------------------
(* parse_file *)

\* a variant of is_dict_value that takes a list for a dict
is_structure_value(v) == v.t \in {"obj", "arr"}

\* isinstance(structure, dict)
is_dict_value(v) == v.t = "obj"

\* a variant of results_set that keeps the value a name already has
results_set_once(r, name, v) ==
    IF \E j \in 1..Len(r) : r[j].name = name THEN r
    ELSE Append(r, [name |-> name, val |-> v])

\* results[var_name] = structure
results_set(r, name, v) ==
    IF \E j \in 1..Len(r) : r[j].name = name
    THEN [j \in 1..Len(r) |-> IF r[j].name = name THEN [name |-> name, val |-> v] ELSE r[j]]
    ELSE Append(r, [name |-> name, val |-> v])

\* a variant of advance that leaves the cursor where it is
advance_none(i) == i

\* parser.advance() after a failed try_parse_assignment
advance(i) == i + 1

\* the head of the driver loop, up to the call of try_parse_assignment
parse_file ==
    /\ pc = "driver"
    /\ IF index < length THEN try_parse_assignment(skip_to_valid(index))
       ELSE Upd(index, brace_depth, bracket_depth, "done", <<>>, NoSkip, ret, asg)

\* the rest of the loop body, once try_parse_assignment has returned
parse_file_collect ==
    /\ pc = "assigned"
    /\ index' = IF asg.ok THEN index ELSE advance(index)
    /\ results' = IF asg.ok /\ is_dict_value(asg.val) /\ Len(asg.val.m) > 0
                  THEN results_set(results, asg.var_name, asg.val)
                  ELSE results
    /\ pc' = "driver"
    /\ UNCHANGED <<text, brace_depth, bracket_depth, stack, sk, ret, asg, inp>>

----------------------------------------------------------------------------
(* Inputs.  An input is a header followed by a body, possibly cut short.   *)
(* The body is either a structure built from value texts (for an object    *)
(* the i-th member has the i-th key name), or any string over RawAlphabet. *)

MaxMembers == 3

MaxTruncMembers == 2

MaxNamedMembers == 2

MaxRaw == 3

KeyNames == <<"a", "b", "c", "d", "e">>

\* value texts: cls is what the text is, val the value of a supported literal
ValT ==
    << [txt |-> <<"1">>, cls |-> "lit", val |-> IntVal(1)],
       [txt |-> <<"n", "u", "l", "l">>, cls |-> "null", val |-> NullVal],
       [txt |-> <<"x">>, cls |-> "ident", val |-> NoVal],
       [txt |-> <<"n", "u", "l", "l", "x">>, cls |-> "kwident", val |-> NoVal],
       [txt |-> <<"f", "(", "{", "a", ":", "1", "}", ",", "2", ")">>, cls |-> "call", val |-> NoVal],
       [txt |-> <<"(", ")", "=", ">", "[", "{", "}", "]">>, cls |-> "call", val |-> NoVal],
       [txt |-> <<"1", "+", "2">>, cls |-> "expr", val |-> NoVal],
       [txt |-> <<"{", "b", ":", "x", "}">>, cls |-> "nest", val |-> NoVal],
       [txt |-> <<"[", "x", "]">>, cls |-> "nest", val |-> NoVal],
       [txt |-> <<"1", "/", "*", "}", "*", "/">>, cls |-> "lit", val |-> IntVal(1)] >>

AllT == 1..Len(ValT)

TruncT == {1, 3, 5, 8, 10}

NamedT == {1, 3, 8}

RawAlphabet == {"{", "}", "[", "]", ",", ":", "a", "1"}

NoHeader == <<>>

VarHeader == <<"v", "a", "r", " ", "a", "=">>

\* a declaration with a type annotation
LetHeader == <<"l", "e", "t", " ", "b", ":", "T", "[", "]", "=">>

\* a declaration whose annotation never ends, then a declaration
LeakHeader == <<"v", "a", "r", " ", "a", ":", "[", " ">> \o <<"l", "e", "t", " ", "b", "=">>

Seqs(S, n) == UNION {[1..m -> S] : m \in 0..n}

RECURSIVE JoinComma(_)
JoinComma(ss) ==
    IF Len(ss) = 0 THEN <<>>
    ELSE IF Len(ss) = 1 THEN ss[1]
    ELSE ss[1] \o <<",">> \o JoinComma(Tail(ss))

MemberText(kind, i, t) ==
    IF kind = "{" THEN <<KeyNames[i], ":">> \o ValT[t].txt ELSE ValT[t].txt

\* kind "{" an object, "[" an array, "v" the bare values
BodyText(kind, vals) ==
    LET inner == JoinComma([i \in 1..Len(vals) |-> MemberText(kind, i, vals[i])]) IN
    IF kind = "{" THEN <<"{">> \o inner \o <<"}">>
    ELSE IF kind = "[" THEN <<"[">> \o inner \o <<"]">>
    ELSE inner

Input(fam, hdr, kind, vals, body, cut) ==
    [fam |-> fam, hdr |-> hdr, kind |-> kind, vals |-> vals, body |-> body, cut |-> cut]

InputText(x) == x.hdr \o SubSeq(x.body, 1, x.cut)

MembersInputs ==
    {Input("members", VarHeader, kind, vals, BodyText(kind, vals), Len(BodyText(kind, vals))) :
        kind \in {"{", "["}, vals \in Seqs(AllT, MaxMembers)}

TruncInputs ==
    UNION {{Input("trunc", VarHeader, kind, vals, BodyText(kind, vals), cut) :
                cut \in 0..Len(BodyText(kind, vals))} :
           kind \in {"{", "["}, vals \in Seqs(TruncT, MaxTruncMembers)}

NamedInputs ==
    {Input("named", hdr, kind, vals, BodyText(kind, vals), Len(BodyText(kind, vals))) :
        hdr \in {NoHeader, VarHeader, LetHeader, LeakHeader}, kind \in {"{", "[", "v"},
        vals \in Seqs(NamedT, MaxNamedMembers)}

RawInputs ==
    {Input("raw", hdr, "", <<>>, body, Len(body)) :
        hdr \in {NoHeader, VarHeader, LetHeader, LeakHeader}, body \in Seqs(RawAlphabet, MaxRaw)}

\* the parts of a declaration: keyword, what follows it, name, annotation,
\* equals sign, and the text after it
DeclKeywords == {<<"c", "o", "n", "s", "t">>, <<"l", "e", "t">>, <<"v", "a", "r">>, <<"v", "a", "x">>}

DeclGaps == {<<" ">>, <<>>}

DeclNames == {<<"a">>, <<"1">>, <<>>}

DeclAnnotations == {<<>>, <<":", "T">>}

DeclEquals == {<<"=">>, <<>>}

DeclBodies ==
    {<<"{", "a", ":", "1", "}">>, <<"{", "a", ":", "[", "1", "]", "}">>, <<"[", "1">>,
     <<"{", "a", ":", "x">>, <<"1">>, <<>>}

DeclInputs ==
    {Input("decl", kw \o gap \o name \o ann \o eq, "", <<>>, body, Len(body)) :
        kw \in DeclKeywords, gap \in DeclGaps, name \in DeclNames,
        ann \in DeclAnnotations, eq \in DeclEquals, body \in DeclBodies}

MaxCommaMembers == 2

CommaT == {1, 2, 3, 8, 9}

\* an object, or an object holding an array (parse_file keeps no array), whose
\* last member is followed by `trailing`
CommaLiteral(kind, vals, trailing) ==
    LET inner == JoinComma([i \in 1..Len(vals) |-> MemberText(kind, i, vals[i])]) \o trailing IN
    IF kind = "{" THEN <<"{">> \o inner \o <<"}">>
    ELSE <<"{", "a", ":", "[">> \o inner \o <<"]", "}">>

\* declaration a holds the literal, declaration b the literal with a trailing
\* comma (and a space after it in the array)
CommaText(kind, vals) ==
    VarHeader \o CommaLiteral(kind, vals, <<>>) \o <<" ">> \o <<"v", "a", "r", " ", "b", "=">>
        \o CommaLiteral(kind, vals, IF kind = "{" THEN <<",">> ELSE <<",", " ">>)

CommaInputs ==
    {Input("comma", NoHeader, kind, vals, CommaText(kind, vals), Len(CommaText(kind, vals))) :
        kind \in {"{", "["}, vals \in Seqs(CommaT, MaxCommaMembers) \ {<<>>}}

MaxTrivia == 2

\* the tokens of a literal of supported members
TriviaTokens ==
    << <<"{">>, <<"a">>, <<":">>, <<"1">>, <<",">>, <<"\"", "k", "\"">>, <<":">>, <<"[">>,
       <<"n", "u", "l", "l">>, <<",">>, <<"'", "s", "'">>, <<"]">>, <<"}">> >>

\* nothing, whitespace, a line comment, block comments
Trivia ==
    << <<>>, <<" ">>, <<"/", "/", "}", "\n">>, <<"/", "*", "]", "*", "/">>,
       <<"/", "*", "/", "*", "/">> >>

\* what goes after each token but the last: nothing in all but MaxTrivia places
TriviaFills ==
    UNION {{[i \in 1..(Len(TriviaTokens) - 1) |-> IF i \in S THEN f[i] ELSE 1] :
              f \in [S -> 2..Len(Trivia)]} :
           S \in {T \in SUBSET (1..(Len(TriviaTokens) - 1)) : Cardinality(T) <= MaxTrivia}}

RECURSIVE TriviaText(_, _)
TriviaText(fill, i) ==
    IF i = Len(TriviaTokens) THEN TriviaTokens[i]
    ELSE TriviaTokens[i] \o Trivia[fill[i]] \o TriviaText(fill, i + 1)

TriviaInputs ==
    {Input("trivia", LetHeader, "{", fill, TriviaText(fill, 1), Len(TriviaText(fill, 1))) :
        fill \in TriviaFills}

\* the parts of a number literal, each with what it stands for
NumSigns == << [txt |-> <<>>, sign |-> 1], [txt |-> <<"-">>, sign |-> -1] >>

NumIntParts ==
    << [txt |-> <<>>, n |-> 0], [txt |-> <<"0">>, n |-> 0], [txt |-> <<"7">>, n |-> 7],
       [txt |-> <<"1", "0">>, n |-> 10] >>

\* n the digits after the dot as an integer, d how many they are
NumFracParts ==
    << [txt |-> <<>>, dot |-> FALSE, n |-> 0, d |-> 0],
       [txt |-> <<".">>, dot |-> TRUE, n |-> 0, d |-> 0],
       [txt |-> <<".", "5">>, dot |-> TRUE, n |-> 5, d |-> 1],
       [txt |-> <<".", "2", "5">>, dot |-> TRUE, n |-> 25, d |-> 2] >>

\* ok: the exponent, if there is one, has digits
NumExpParts ==
    << [txt |-> <<>>, exp |-> FALSE, e |-> 0, ok |-> TRUE],
       [txt |-> <<"e", "2">>, exp |-> TRUE, e |-> 2, ok |-> TRUE],
       [txt |-> <<"E", "+", "1">>, exp |-> TRUE, e |-> 1, ok |-> TRUE],
       [txt |-> <<"e", "-", "1">>, exp |-> TRUE, e |-> -1, ok |-> TRUE],
       [txt |-> <<"e">>, exp |-> TRUE, e |-> 0, ok |-> FALSE],
       [txt |-> <<"E", "+">>, exp |-> TRUE, e |-> 0, ok |-> FALSE] >>

NumPrefixes ==
    << [txt |-> <<"0", "x">>, base |-> 16], [txt |-> <<"0", "X">>, base |-> 16],
       [txt |-> <<"0", "b">>, base |-> 2], [txt |-> <<"0", "B">>, base |-> 2],
       [txt |-> <<"0", "o">>, base |-> 8], [txt |-> <<"0", "O">>, base |-> 8] >>

\* digits of a radix literal: n their positional value in base 16, 2 and 8
NumRadixDigits ==
    << [txt |-> <<>>, n |-> [b \in {16, 2, 8} |-> 0]],
       [txt |-> <<"1", "0">>, n |-> [b \in {16, 2, 8} |-> b]],
       [txt |-> <<"1", "0", "1">>, n |-> [b \in {16, 2, 8} |-> b * b + 1]] >>

\* hexadecimal digits that are letters
NumHexDigits == << [txt |-> <<"F", "F">>, n |-> 255], [txt |-> <<"1", "f">>, n |-> 31] >>

\* what comes after the literal: the end of input, a separator, whitespace,
\* the closer, further elements
NumFollows == << <<>>, <<",">>, <<" ">>, <<"]">>, <<",", "[", "1", "]", "]">> >>

NumHeader == VarHeader \o <<"[">>

\* kind "dec": vals = <<sign, integer part, fraction, exponent, follow>>
\* kind "radix": vals = <<sign, prefix, digits, 1, follow>>
\* kind "hex": vals = <<sign, prefix, letter digits, 1, follow>>
NumberLiteral(kind, vals) ==
    NumSigns[vals[1]].txt \o
    (IF kind = "dec"
     THEN NumIntParts[vals[2]].txt \o NumFracParts[vals[3]].txt \o NumExpParts[vals[4]].txt
     ELSE IF kind = "radix" THEN NumPrefixes[vals[2]].txt \o NumRadixDigits[vals[3]].txt
     ELSE NumPrefixes[vals[2]].txt \o NumHexDigits[vals[3]].txt)

NumberInput(kind, vals) ==
    Input("number", NumHeader, kind, vals, NumberLiteral(kind, vals) \o NumFollows[vals[5]],
          Len(NumberLiteral(kind, vals)) + Len(NumFollows[vals[5]]))

NumberInputs ==
    {NumberInput("dec", <<s, a, b, c, f>>) :
        s \in 1..Len(NumSigns), a \in 1..Len(NumIntParts), b \in 1..Len(NumFracParts),
        c \in 1..Len(NumExpParts), f \in 1..Len(NumFollows)}
    \cup {NumberInput("radix", <<s, p, d, 1, f>>) :
        s \in 1..Len(NumSigns), p \in 1..Len(NumPrefixes), d \in 1..Len(NumRadixDigits),
        f \in 1..Len(NumFollows)}
    \cup {NumberInput("hex", <<s, p, d, 1, f>>) :
        s \in 1..Len(NumSigns), p \in 1..2, d \in 1..Len(NumHexDigits),
        f \in 1..Len(NumFollows)}

MaxKeyMembers == 2

\* key texts: identifier, quoted, numeric
KeyT ==
    << <<"a">>, <<"\"", "a", "\"">>, <<"0">>, <<"7">>, <<"'", "7", "'">>, <<"1", ".", "5">>,
       <<"1", "e", "2">>, <<"0", "x", "1", "0">>, <<"-", "1">>, <<"7", ".", "0">> >>

\* the value of the i-th member
KeyMemberValues == << <<"1">>, <<"[", "2", "]">>, <<"3">> >>

KeysBody(keys) ==
    <<"{">> \o JoinComma([i \in 1..Len(keys) |-> KeyT[keys[i]] \o <<":">> \o KeyMemberValues[i]])
        \o <<"}">>

KeysInputs ==
    {Input("keys", VarHeader, "{", keys, KeysBody(keys), Len(KeysBody(keys))) :
        keys \in Seqs(1..Len(KeyT), MaxKeyMembers)}

MaxStrItems == 2

\* what a string literal is made of: txt as written, val what it stands for;
\* a bare quote stands for itself where it does not end the string
StrItems ==
    << [txt |-> <<"x">>, val |-> <<"x">>],
       [txt |-> <<"\"">>, val |-> <<"\"">>],
       [txt |-> <<"'">>, val |-> <<"'">>],
       [txt |-> <<"\\", "n">>, val |-> <<"\n">>],
       [txt |-> <<"\\", "t">>, val |-> <<"\t">>],
       [txt |-> <<"\\", "r">>, val |-> <<"\r">>],
       [txt |-> <<"\\", "\\">>, val |-> <<"\\">>],
       [txt |-> <<"\\", "\"">>, val |-> <<"\"">>],
       [txt |-> <<"\\", "'">>, val |-> <<"'">>],
       [txt |-> <<"\\", "z">>, val |-> <<"z">>],
       [txt |-> <<",">>, val |-> <<",">>],
       [txt |-> <<"]">>, val |-> <<"]">>] >>

\* an array whose second element is the string
StrHeader == VarHeader \o <<"[", "[", "1", "]", ",">>

RECURSIVE StrItemsText(_, _)
StrItemsText(items, n) ==
    IF n = 0 THEN <<>> ELSE StrItemsText(items, n - 1) \o StrItems[items[n]].txt

\* the literal in quotes `quote`, and the closer of the array
StrBody(quote, items) ==
    <<quote>> \o StrItemsText(items, Len(items)) \o <<quote, "]">>

\* the whole text, or the text up to the end of the items: no closing quote
StringInputs ==
    UNION {{Input("string", StrHeader, quote, items, StrBody(quote, items), cut) :
                cut \in {1 + Len(StrItemsText(items, Len(items))), Len(StrBody(quote, items))}} :
           quote \in {"\"", "'"}, items \in Seqs(1..Len(StrItems), MaxStrItems)}

MaxRedecls == 2

\* declaration headers with the name they declare
RedeclHeaders ==
    << [name |-> <<"a">>, txt |-> VarHeader],
       [name |-> <<"b">>, txt |-> <<"l", "e", "t", " ", "b", ":", "T", "=">>] >>

\* structures that parse, with their values
RedeclValues ==
    << [txt |-> <<"{", "x", ":", "1", "}">>,
        val |-> ObjVal(<<[k |-> StrKey(<<"x">>), v |-> IntVal(1)]>>)],
       [txt |-> <<"{", "x", ":", "2", "}">>,
        val |-> ObjVal(<<[k |-> StrKey(<<"x">>), v |-> IntVal(2)]>>)],
       [txt |-> <<"{", "x", ":", "[", "1", "]", "}">>,
        val |-> ObjVal(<<[k |-> StrKey(<<"x">>), v |-> ArrVal(<<IntVal(1)>>)]>>)],
       [txt |-> <<"[", "1", "]">>, val |-> ArrVal(<<IntVal(1)>>)],
       [txt |-> <<"{", "}">>, val |-> ObjVal(<<>>)] >>

\* declaration d is header RedeclHeader(d) with value RedeclValue(d)
RedeclHeader(d) == RedeclHeaders[((d - 1) % Len(RedeclHeaders)) + 1]

RedeclValue(d) == RedeclValues[((d - 1) \div Len(RedeclHeaders)) + 1]

RECURSIVE RedeclText(_, _)
RedeclText(decls, n) ==
    IF n = 0 THEN <<>>
    ELSE RedeclText(decls, n - 1) \o RedeclHeader(decls[n]).txt \o RedeclValue(decls[n]).txt
             \o <<";">>

RedeclInputs ==
    {Input("redecl", NoHeader, "", decls, RedeclText(decls, Len(decls)),
           Len(RedeclText(decls, Len(decls)))) :
        decls \in Seqs(1..(Len(RedeclHeaders) * Len(RedeclValues)), MaxRedecls)}

MaxQuoted == 2

QuoteKinds == {"\"", "'", Backtick}

\* what a quoted region may hold: closers, a comma, openers, a quote of
\* another kind, and the region's own quote escaped
QuotedTokens(quote) ==
    {<<"}">>, <<"]">>, <<",">>, <<"{">>, <<"[">>, <<"(">>,
     <<IF quote = "'" THEN "\"" ELSE "'">>, <<"\\", quote>>}

RECURSIVE Concat(_)
Concat(ss) == IF Len(ss) = 0 THEN <<>> ELSE Head(ss) \o Concat(Tail(ss))

\* an unsupported value made of a quoted region: a template literal, or a
\* string added to a name
QuotedValue(quote, lead, toks) == lead \o <<quote>> \o Concat(toks) \o <<quote>>

\* a quoted region that starts a value is unsupported as a template only
QuotedLeads(quote) == IF quote = Backtick THEN {<<>>, <<"x", "+">>} ELSE {<<"x", "+">>}

\* the unsupported value between two supported members, the second a list
QuotedBody(kind, value) ==
    IF kind = "{"
    THEN <<"{", "a", ":", "1", ",", "b", ":">> \o value \o <<",", "c", ":", "[", "3", "]", "}">>
    ELSE <<"[", "1", ",">> \o value \o <<",", "[", "3", "]", "]">>

QuotedInputs ==
    UNION {{Input("quoted", VarHeader, kind, <<<<quote>>>> \o toks,
                  QuotedBody(kind, QuotedValue(quote, lead, toks)),
                  Len(QuotedBody(kind, QuotedValue(quote, lead, toks)))) :
                kind \in {"{", "["}, lead \in QuotedLeads(quote),
                toks \in Seqs(QuotedTokens(quote), MaxQuoted)} :
           quote \in QuoteKinds}

MaxTypeParts == 2

\* parts of a type annotation, each with its brackets and quotes balanced;
\* an equals sign occurs only inside brackets or quotes
TypeParts ==
    {<<"T">>, <<" ">>, <<"[", "]">>, <<"{", "k", "=", "1", "}">>, <<"(", "=", ")">>,
     <<"<", "[", "=", "]", ">">>, <<"(", "{", "=", "}", "[", "=", "]", ")">>,
     <<"'", "=", "'">>, <<Backtick, "(", "=", Backtick>>}

AnnotKeywords == {<<"c", "o", "n", "s", "t">>, <<"l", "e", "t">>, <<"v", "a", "r">>}

\* the structures of RedeclValues a declaration is given
AnnotStructs == {1, 3, 4, 5}

\* kind ":" a declaration with a type annotation, "" the same without
AnnotInputs ==
    {Input("annot", kw \o <<" ", "a">> \o <<"=">>, "", <<st>>,
           RedeclValues[st].txt, Len(RedeclValues[st].txt)) :
        kw \in AnnotKeywords, st \in AnnotStructs}
    \cup
    {Input("annot", kw \o <<" ", "a", ":">> \o Concat(type) \o <<"=">>, ":", <<st>>,
           RedeclValues[st].txt, Len(RedeclValues[st].txt)) :
        kw \in AnnotKeywords, st \in AnnotStructs, type \in Seqs(TypeParts, MaxTypeParts)}

MaxPrefixMembers == 2

PrefixT == {1, 3, 8, 9}

\* text before a declaration that gives no declaration of its own: nothing,
\* unmatched closers, declarations cut short in the annotation or the value
Prefixes ==
    {<<>>, <<"}", "]", " ">>, <<"v", "a", "r", " ", "a", ":", "{", " ">>,
     <<"v", "a", "r", " ", "a", ":", "[", " ">>, <<"v", "a", "r", " ", "a", "=", "{", " ">>,
     <<"l", "e", "t", " ", "z", "=", "[", " ">>}

PrefixDecl == <<"l", "e", "t", " ", "b", "=">>

PrefixInputs ==
    {Input("prefix", prefix \o PrefixDecl, "{", vals, BodyText("{", vals),
           Len(BodyText("{", vals))) :
        prefix \in Prefixes, vals \in Seqs(PrefixT, MaxPrefixMembers)}

\* Parser(text) and results = {}
Start(inputs) ==
    /\ inp \in inputs
    /\ text = InputText(inp)
    /\ index = 0
    /\ brace_depth = 0
    /\ bracket_depth = 0
    /\ results = <<>>
    /\ pc = "driver"
    /\ stack = <<>>
    /\ sk = NoSkip
    /\ ret = NoRet
    /\ asg = NoAsg

Init == Start(MembersInputs \cup TruncInputs \cup NamedInputs \cup RawInputs)

InitMembers == Start(MembersInputs)

InitTrunc == Start(TruncInputs)

InitNamed == Start(NamedInputs)

InitComma == Start(CommaInputs)

InitTrivia == Start(TriviaInputs)

InitNumber == Start(NumberInputs)

InitKeys == Start(KeysInputs)

InitString == Start(StringInputs)

InitRedecl == Start(RedeclInputs)

InitQuoted == Start(QuotedInputs)

InitAnnot == Start(AnnotInputs)

InitPrefix == Start(PrefixInputs)

InitDecl == Start(DeclInputs)

InitRaw == Start(RawInputs)

Next ==
    \/ parse_file
    \/ try_parse_assignment_return
    \/ parse_file_collect
    \/ parse_structure
    \/ parse_structure_resume
    \/ skip_invalid

Spec == Init /\ [][Next]_vars

SpecMembers == InitMembers /\ [][Next]_vars

SpecTrunc == InitTrunc /\ [][Next]_vars

SpecNamed == InitNamed /\ [][Next]_vars

SpecRaw == InitRaw /\ [][Next]_vars

SpecComma == InitComma /\ [][Next]_vars

SpecTrivia == InitTrivia /\ [][Next]_vars

SpecNumber == InitNumber /\ [][Next]_vars

SpecKeys == InitKeys /\ [][Next]_vars

SpecString == InitString /\ [][Next]_vars

SpecRedecl == InitRedecl /\ [][Next]_vars

SpecQuoted == InitQuoted /\ [][Next]_vars

SpecAnnot == InitAnnot /\ [][Next]_vars

SpecPrefix == InitPrefix /\ [][Next]_vars

SpecDecl == InitDecl /\ [][Next]_vars

----------------------------------------------------------------------------
(* What the claims speak of *)

Cls(x, i) == ValT[x.vals[i]].cls

KeyAt(i) == StrKey(<<KeyNames[i]>>)

\* the items of the members of x whose class is in classes, in source order
RECURSIVE KeptFrom(_, _, _)
KeptFrom(x, i, classes) ==
    IF i > Len(x.vals) THEN <<>>
    ELSE (IF Cls(x, i) \in classes
          THEN <<[k |-> KeyAt(i), v |-> ValT[x.vals[i]].val]>>
          ELSE <<>>) \o KeptFrom(x, i + 1, classes)

\* the outermost parse_structure of an object built from value texts has
\* just returned a dict
TopObjectReturned ==
    /\ pc = "ret"
    /\ stack = <<>>
    /\ ret.ok
    /\ ret.is_dict
    /\ inp.fam = "members"
    /\ inp.kind = "{"

\* C1's inputs: supported literal members and at least one call or arrow
\* function with nested braces, brackets and parentheses
C1_Input ==
    /\ inp.fam = "members"
    /\ inp.kind = "{"
    /\ \A i \in 1..Len(inp.vals) : Cls(inp, i) \in {"lit", "null", "call"}
    /\ \E i \in 1..Len(inp.vals) : Cls(inp, i) = "call"

\* C1: an object whose members are supported literals and unsupported
\* constructs with nested braces, brackets or parentheses parses to exactly the
\* supported members, in order; no nested '}' or ',' ends the recovery early.
C1_RecoveryScoping ==
    (pc = "done" /\ C1_Input) =>
        /\ asg.ok
        /\ asg.val = ObjVal(KeptFrom(inp, 1, {"lit", "null"}))
        /\ results = IF KeptFrom(inp, 1, {"lit", "null"}) = <<>> THEN <<>>
                     ELSE <<[name |-> <<"a">>, val |-> asg.val]>>

C1_Witness ==
    /\ pc = "done"
    /\ C1_Input
    /\ Len(inp.vals) = 3
    /\ Cls(inp, 1) = "lit"
    /\ Cls(inp, 2) = "call"
    /\ Cls(inp, 3) = "lit"
    /\ Len(asg.val.m) = 2

\* C2: whenever skip_invalid, called from parse_structure, meets at local depth
\* 0 the closer of the container being parsed, it consumes it and
\* parse_structure returns the members accumulated so far.
C2_RecoveryFinalizes ==
    [][(/\ pc = "skip"
        /\ sk.caller = "struct"
        /\ sk.current_quote = ""
        /\ sk.depth = 0
        /\ current(index) = sk.container_end)
       => (/\ pc' = "ret"
           /\ ret'.ok
           /\ ret'.val.m = Top.result
           /\ index' = index + 1)]_vars

\* C3: in a returned object a member whose value is the literal null is
\* present with None, and a member whose value is an unsupported construct has
\* no key: it is never present with None or any other placeholder.
C3_DropNotNull ==
    TopObjectReturned =>
        \A i \in 1..Len(inp.vals) :
            /\ Cls(inp, i) = "null" =>
                   /\ HasKey(ret.val.m, KeyAt(i))
                   /\ dict_get(ret.val.m, KeyAt(i)) = NullVal
            /\ Cls(inp, i) \in {"ident", "kwident", "call"} =>
                   ~HasKey(ret.val.m, KeyAt(i))

\* C4: a member whose value is a bare identifier other than true, false or
\* null, also one that begins with the letters of a keyword, has no key in the
\* result.
C4_IdentifierDropped ==
    TopObjectReturned =>
        \A i \in 1..Len(inp.vals) :
            Cls(inp, i) \in {"ident", "kwident"} => ~HasKey(ret.val.m, KeyAt(i))

\* C5: a member whose value position holds a supported literal followed by
\* further content before the comma or closer stores no value.
C5_NoPartialValue ==
    TopObjectReturned =>
        \A i \in 1..Len(inp.vals) : Cls(inp, i) = "expr" => ~HasKey(ret.val.m, KeyAt(i))

\* C6: if the input ends before the closer of the container parse_structure
\* was entered on, parse_structure returns None for it and parse_file records
\* no entry for the declaration.
C6_TruncationYieldsNothing ==
    (inp.fam = "trunc" /\ inp.cut < Len(inp.body)) =>
        /\ ~(pc = "ret" /\ stack = <<>> /\ ret.ok)
        /\ results = <<>>

\* C7: after every call of parse_structure, outermost or nested, returning a
\* value or None, brace_depth and bracket_depth equal their values immediately
\* before the call; likewise after a complete try_parse_assignment.
C7_DepthSafety ==
    /\ pc = "ret" => (brace_depth = ret.b0 /\ bracket_depth = ret.k0)
    /\ pc = "assigned" => (brace_depth = asg.b0 /\ bracket_depth = asg.k0)

\* C8: in every reachable state of a parse, for every input, also one whose
\* body is only unmatched closers, brace_depth >= 0 and bracket_depth >= 0.
C8_NonNegativeCounters == brace_depth >= 0 /\ bracket_depth >= 0

\* skip_invalid has met three ']' of which at most one had an opener
C8_Witness ==
    /\ pc = "skip"
    /\ sk.caller = "annot"
    /\ inp.fam = "raw"
    /\ inp.hdr = LeakHeader
    /\ inp.body = <<"]", "]", "]">>
    /\ index = length
    /\ bracket_depth = 0

\* the entry index of the driver iteration under way
DriverIndex == IF pc \in {"driver", "done"} THEN index ELSE asg.saved_index

\* 3 before the call of try_parse_assignment, 2 within it, 1 once it has
\* returned, 0 when the driver loop has ended
Phase ==
    CASE pc = "driver" -> 3
      [] pc = "assigned" -> 1
      [] pc = "done" -> 0
      [] OTHER -> 2

PcRank == CASE pc = "ret" -> 2 [] pc = "loop" -> 1 [] OTHER -> 0

\* what is left to do, in lexicographic order; the cursor never passes
\* length + 2
Measure ==
    <<length + 2 - DriverIndex, Phase, length + 2 - index, Len(stack), PcRank>>

\* the guard of Next: the position is one that an action takes up, with the
\* frame the action reads
CanStep ==
    \/ pc \in {"driver", "assigned", "ret"}
    \/ pc = "loop" /\ stack # <<>>
    \/ pc = "skip" /\ (sk.caller = "annot" \/ (sk.caller = "struct" /\ stack # <<>>))

RECURSIVE LexLess(_, _)
LexLess(m, n) ==
    /\ m # <<>>
    /\ \/ m[1] < n[1]
       \/ m[1] = n[1] /\ LexLess(Tail(m), Tail(n))

\* C9: parse_file terminates on every input: while the driver loop has not
\* ended a step is possible, and every step decreases a measure that is bounded
\* below.  A successful try_parse_assignment ends beyond its entry index, a
\* failed one restores the index and is followed by an advance of one; every
\* iteration of the member loop of parse_structure that does not return
\* consumes at least one character.
C9_TerminationAndProgress ==
    /\ [](pc # "done" => CanStep)
    /\ [](\A i \in 1..Len(Measure) : Measure[i] >= 0)
    /\ [][LexLess(Measure', Measure)]_vars
    /\ [](pc = "loop" /\ Top.it # -1 => index > Top.it)
    /\ [][pc = "assigned" =>
            /\ asg.ok => (index > asg.saved_index /\ index' = index)
            /\ ~asg.ok => (index = asg.saved_index /\ index' = index + 1)]_vars

\* a parse that ended after a failed try_parse_assignment beyond the start
C9_Witness ==
    /\ pc = "done"
    /\ ~asg.ok
    /\ asg.saved_index > 0
    /\ index >= length

\* C10: every entry of the mapping is a non-empty dict under the name of a
\* declaration header that the object literal directly follows; literals with
\* no header, arrays, empty objects and non-structures leave no entry.
C10_NamedExtraction ==
    /\ Len(results) <= 1
    /\ \A j \in 1..Len(results) :
          /\ results[j].val.t = "obj"
          /\ Len(results[j].val.m) > 0
          /\ inp.hdr # NoHeader
          /\ inp.kind = "{"
          /\ \E i \in 1..Len(inp.vals) : Cls(inp, i) \in {"lit", "nest"}
          /\ results[j].name = IF inp.hdr = VarHeader THEN <<"a">> ELSE <<"b">>

C10_Witness ==
    /\ pc = "done"
    /\ inp.fam = "named"
    /\ inp.hdr = LetHeader
    /\ results = <<[name |-> <<"b">>, val |-> ObjVal(KeptFrom(inp, 1, {"lit"}))]>>

\* C11: whenever try_parse_assignment returns None, for want of a keyword, of
\* whitespace after it, of a name, of '=', of an opener, or because the
\* structure failed to parse, the cursor is where it was when the call began.
C11_CursorRestored == (pc = "assigned" /\ ~asg.ok) => index = asg.saved_index

\* a declaration whose structure ran to the end of input unclosed
C11_Witness ==
    /\ pc = "assigned"
    /\ ~asg.ok
    /\ inp.fam = "decl"
    /\ ret.via = "eof"
    /\ ret.start > asg.saved_index
    /\ index = asg.saved_index

\* the value parse_file holds for a name, NoVal when it holds none
Entry(name) ==
    IF \E j \in 1..Len(results) : results[j].name = name
    THEN results[CHOOSE j \in 1..Len(results) : results[j].name = name].val
    ELSE NoVal

\* C12: a literal whose last member is followed by a single comma before the
\* closer parses to the same value as the same literal without that comma.
C12_TrailingComma ==
    (pc = "done" /\ inp.fam = "comma") => Entry(<<"b">>) = Entry(<<"a">>)

\* the value of the literal that TriviaTokens spell
TriviaValue ==
    ObjVal(<<[k |-> StrKey(<<"a">>), v |-> IntVal(1)],
             [k |-> StrKey(<<"k">>), v |-> ArrVal(<<NullVal, StrVal(<<"s">>)>>)]>>)

\* C13: whitespace, a complete line comment or a complete block comment put
\* between any two tokens of a literal of supported members does not change
\* the value parsed from it: with nothing put in, and with anything put in, the
\* value is the same.
C13_CommentTransparency ==
    (pc = "done" /\ inp.fam = "trivia") =>
        /\ asg.ok
        /\ asg.val = TriviaValue
        /\ results = <<[name |-> <<"b">>, val |-> TriviaValue]>>

\* a line comment between a key and its colon, a block comment elsewhere
C13_Witness ==
    /\ pc = "done"
    /\ inp.fam = "trivia"
    /\ inp.vals[2] = 3
    /\ \E i \in 1..Len(inp.vals) : inp.vals[i] \in {4, 5}
    /\ asg.val = TriviaValue

\* a block comment opens at c and no '*/' follows it
UnterminatedAt(c) ==
    /\ startswith(c, <<"/", "*">>)
    /\ \A j \in (c + 2)..(length - 2) : ~startswith(j, <<"*", "/">>)

\* C14: when skip_to_valid meets '/*' with no later '*/' it returns with the
\* cursor at end of input, so that no character after the '/*' is read.
C14_UnterminatedComment ==
    \A c \in 0..(length - 1) : UnterminatedAt(c) => skip_to_valid(c) >= length

\* the parser stands where the number literal of the input begins
AtNumber == inp.fam = "number" /\ pc = "loop" /\ index = Len(inp.hdr)

\* the literal is one the number grammar accepts
NumberWellFormed ==
    IF inp.kind = "dec"
    THEN /\ NumIntParts[inp.vals[2]].txt # <<>> \/ NumFracParts[inp.vals[3]].d > 0
         /\ NumExpParts[inp.vals[4]].ok
    ELSE inp.kind = "hex" \/ NumRadixDigits[inp.vals[3]].txt # <<>>

\* what the literal stands for: an Integer for a radix literal and for a
\* decimal with neither dot nor exponent, a Float otherwise
NumberValue ==
    LET sign == NumSigns[inp.vals[1]].sign IN
    IF inp.kind = "radix"
    THEN IntVal(sign * NumRadixDigits[inp.vals[3]].n[NumPrefixes[inp.vals[2]].base])
    ELSE IF inp.kind = "hex" THEN IntVal(sign * NumHexDigits[inp.vals[3]].n)
    ELSE LET a == NumIntParts[inp.vals[2]]
             b == NumFracParts[inp.vals[3]]
             c == NumExpParts[inp.vals[4]]
         IN  IF b.dot \/ c.exp
             THEN NormFloat(sign * (a.n * Pow10(b.d) + b.n), c.e - b.d)
             ELSE IntVal(sign * a.n)

\* C15: read_number returns an Integer, the positional value of the digits, for
\* a radix literal and for a decimal literal with neither '.' nor exponent, and
\* a Float for a decimal literal with a '.' or an exponent.
C15_NumericKindAndRadix ==
    (AtNumber /\ NumberWellFormed) =>
        /\ read_number(index).ok
        /\ read_number(index).v = NumberValue

\* the literal is a '-' followed by neither a digit nor a '.'
NumberBareMinus ==
    /\ inp.kind = "dec"
    /\ NumSigns[inp.vals[1]].sign = -1
    /\ NumIntParts[inp.vals[2]].txt = <<>>
    /\ ~NumFracParts[inp.vals[3]].dot

\* the literal has an 'e' or 'E' that no digit follows
NumberBareExponent == inp.kind = "dec" /\ ~NumExpParts[inp.vals[4]].ok

\* C16: when read_number fails because a '-' is followed by neither a digit
\* nor a '.', or because an 'e' or 'E' is not followed by a digit, it returns
\* None with the cursor where it was at entry.
C16_NumberFailureRestores ==
    (AtNumber /\ (NumberBareMinus \/ NumberBareExponent)) =>
        /\ ~read_number(index).ok
        /\ read_number(index).idx = index

\* the recovery begins at the start of '7.5e,' where read_number left the
\* cursor
C16_Witness ==
    /\ inp.fam = "number"
    /\ inp.kind = "dec"
    /\ inp.vals = <<1, 3, 3, 5, 2>>
    /\ pc = "skip"
    /\ index = Len(inp.hdr)

\* a string, or an Integer that is not negative
IsKeyKind(key) == key.t = "str" \/ (key.t = "int" /\ key.n >= 0)

\* C17: every key of every object that parse_structure builds is a string or a
\* non-negative Integer, a numeric key with a fraction or an exponent is not
\* accepted, and the numeric key 7 and the string key '7' are distinct keys.
C17_KeyKinds ==
    /\ \A f \in 1..Len(stack) :
          \A j \in 1..Len(stack[f].result) :
              stack[f].is_dict => IsKeyKind(stack[f].result[j].k)
    /\ (pc = "done" /\ inp.fam = "keys" /\ inp.vals = <<4, 5>>) =>
          /\ asg.ok
          /\ Len(asg.val.m) = 2

\* the parser stands at the opening quote of the string literal of the input
AtString == inp.fam = "string" /\ pc = "loop" /\ index = Len(inp.hdr)

\* the first item that is the bare quote the literal opened with, 0 if none
StrFirstQuote ==
    LET Q == {n \in 1..Len(inp.vals) : StrItems[inp.vals[n]].txt = <<inp.kind>>} IN
    IF Q = {} THEN 0 ELSE CHOOSE n \in Q : \A m \in Q : n <= m

\* how many items the string holds
StrLength ==
    IF StrFirstQuote > 0 THEN StrFirstQuote - 1 ELSE Len(inp.vals)

RECURSIVE StrItemsValue(_, _)
StrItemsValue(items, n) ==
    IF n = 0 THEN <<>> ELSE StrItemsValue(items, n - 1) \o StrItems[items[n]].val

\* an unescaped closing quote comes before the end of input
StrTerminated == StrFirstQuote > 0 \/ inp.cut = Len(inp.body)

\* C18: positioned at a quote q, read_string returns the characters up to the
\* first unescaped q, with each escape replaced by what it stands for and the
\* other kind of quote kept as content, and leaves the cursor right after the
\* closing q; if the input ends before an unescaped q the result is None.
C18_StringReader ==
    AtString =>
        IF StrTerminated
        THEN /\ read_string(index).ok
             /\ read_string(index).s = StrItemsValue(inp.vals, StrLength)
             /\ read_string(index).idx = index + 1 + Len(StrItemsText(inp.vals, StrLength)) + 1
        ELSE ~read_string(index).ok

\* the array returned holds the string written "\n'"
C18_Witness ==
    /\ inp.fam = "string"
    /\ inp.kind = "\""
    /\ inp.vals = <<4, 3>>
    /\ pc = "ret"
    /\ stack = <<>>
    /\ ret.ok
    /\ ret.val.m = <<ArrVal(<<IntVal(1)>>), StrVal(<<"\n", "'">>)>>

\* the declarations of the input that declare name
DeclsOf(name) == {n \in 1..Len(inp.vals) : RedeclHeader(inp.vals[n]).name = name}

\* those of them whose value is a dict that is not empty
RecordedDeclsOf(name) ==
    {n \in DeclsOf(name) : LET v == RedeclValue(inp.vals[n]).val IN v.t = "obj" /\ v.m # <<>>}

\* the value of the last declaration in D, NoVal if D is empty
LastValue(D) ==
    IF D = {} THEN NoVal
    ELSE RedeclValue(inp.vals[CHOOSE n \in D : \A m \in D : m <= n]).val

\* C19 as stated: when several declarations have the same name, each followed
\* by a structure that parses, the entry for the name is the value of the last
\* of them in source order.
C19_LastDeclarationWins ==
    (pc = "done" /\ inp.fam = "redecl") =>
        \A name \in {<<"a">>, <<"b">>} :
            Cardinality(DeclsOf(name)) >= 2 => Entry(name) = LastValue(DeclsOf(name))

\* C19 amended: the entry for a name is the value of the last declaration of
\* the name whose structure parses to a dict that is not empty; a later
\* declaration of the name whose value is an array or an empty object leaves
\* that entry in place, and a name with no such declaration has no entry.
C19_LastRecordedWins ==
    (pc = "done" /\ inp.fam = "redecl") =>
        \A name \in {<<"a">>, <<"b">>} : Entry(name) = LastValue(RecordedDeclsOf(name))

\* two declarations of a with different dicts: the entry is the second
C19_Witness ==
    /\ pc = "done"
    /\ inp.fam = "redecl"
    /\ inp.vals = <<1, 3>>
    /\ Entry(<<"a">>) = RedeclValues[2].val

\* the value of the i-th element of x where it is supported: a literal, or a
\* nested container with its own unsupported members dropped
ElementValue(x, i) ==
    IF Cls(x, i) \in {"lit", "null"} THEN ValT[x.vals[i]].val
    ELSE IF Head(ValT[x.vals[i]].txt) = "{" THEN ObjVal(<<>>)
    ELSE ArrVal(<<>>)

\* the supported elements of x from the i-th on, in source order
RECURSIVE ElementsFrom(_, _)
ElementsFrom(x, i) ==
    IF i > Len(x.vals) THEN <<>>
    ELSE (IF Cls(x, i) \in {"lit", "null", "nest"} THEN <<ElementValue(x, i)>> ELSE <<>>)
             \o ElementsFrom(x, i + 1)

\* C20: the list returned for an array literal is the subsequence, in source
\* order, of its supported elements, nested containers parsed by the same
\* rule; an identifier or a call adds no element and removes none.
C20_ArrayFiltering ==
    (/\ pc = "done"
     /\ inp.fam = "members"
     /\ inp.kind = "["
     /\ \A i \in 1..Len(inp.vals) : Cls(inp, i) \in {"lit", "null", "nest", "ident", "call"}) =>
        /\ asg.ok
        /\ asg.val = ArrVal(ElementsFrom(inp, 1))

\* the value of a quoted input with the unsupported member dropped
QuotedKept ==
    IF inp.kind = "{"
    THEN ObjVal(<<[k |-> StrKey(<<"a">>), v |-> IntVal(1)],
                  [k |-> StrKey(<<"c">>), v |-> ArrVal(<<IntVal(3)>>)]>>)
    ELSE ArrVal(<<IntVal(1), ArrVal(<<IntVal(3)>>)>>)

\* C21: while skip_invalid is inside a quoted region no character changes its
\* local depth or the depth counters or ends the recovery, so that a dropped
\* member holding closers and commas in a template or a string leaves the
\* enclosing container whole: its other members are returned.
C21_QuotedRegionsInert ==
    inp.fam = "quoted" =>
        /\ (pc = "skip" /\ sk.current_quote # "") =>
              /\ sk.depth = 0
              /\ Len(stack) = 1
              /\ brace_depth = (IF inp.kind = "{" THEN 1 ELSE 0)
              /\ bracket_depth = (IF inp.kind = "[" THEN 1 ELSE 0)
        /\ pc = "done" =>
              /\ asg.ok
              /\ asg.val = QuotedKept
              /\ brace_depth = 0
              /\ bracket_depth = 0

\* recovery stands on a closer of the container's kind inside a template
C21_Witness ==
    /\ inp.fam = "quoted"
    /\ inp.kind = "{"
    /\ pc = "skip"
    /\ sk.current_quote = Backtick
    /\ current(index) = "}"
    /\ current(index + 1) = ","

\* C22: a declaration with a type annotation whose brackets are balanced
\* returns the name and the value that the declaration without the
\* annotation returns; an equals sign inside brackets or quotes of the type
\* is not taken as the assignment sign.
C22_TypeAnnotationSkipped ==
    (pc = "assigned" /\ inp.fam = "annot" /\ asg.saved_index = 0) =>
        /\ asg.ok
        /\ asg.var_name = <<"a">>
        /\ asg.val = RedeclValues[inp.vals[1]].val
        /\ index = length

\* an annotated declaration with an equals sign inside the type has returned
C22_Witness ==
    /\ pc = "assigned"
    /\ inp.fam = "annot"
    /\ inp.kind = ":"
    /\ \E i \in 1..(Len(inp.hdr) - 1) : inp.hdr[i] = "="
    /\ asg.ok
    /\ asg.val.t = "obj"

\* the number of active frames of parse_structure of one kind
ActiveFrames(is_dict) == Cardinality({n \in 1..Len(stack) : stack[n].is_dict = is_dict})

\* C23: in the member loop of parse_structure, in a parse that began with both
\* counters 0, brace_depth is the number of active object frames and
\* bracket_depth the number of active array frames, so that the counter of the
\* kind of the container being parsed is at least 1.
C23_DepthCountsFrames ==
    (pc = "loop" /\ inp.fam = "members") =>
        /\ brace_depth = ActiveFrames(TRUE)
        /\ bracket_depth = ActiveFrames(FALSE)
        /\ (IF Top.is_dict THEN brace_depth ELSE bracket_depth) >= 1

\* the members of x that a parse keeps: literals, and nested containers
\* without their unsupported members
RECURSIVE KeptMembers(_, _)
KeptMembers(x, i) ==
    IF i > Len(x.vals) THEN <<>>
    ELSE (IF Cls(x, i) \in {"lit", "null", "nest"}
          THEN <<[k |-> KeyAt(i), v |-> ElementValue(x, i)]>>
          ELSE <<>>) \o KeptMembers(x, i + 1)

\* the parse of x, run with nothing before the declaration, returns None: an
\* object closed through recovery comes before a last member that is dropped
UnprefixedFails(x) ==
    /\ Len(x.vals) >= 2
    /\ Cls(x, Len(x.vals)) = "ident"
    /\ \E i \in 1..(Len(x.vals) - 1) : x.vals[i] = 8

\* what parse_file returns for the declaration of x with nothing before it
UnprefixedResults(x) ==
    IF UnprefixedFails(x) \/ KeptMembers(x, 1) = <<>> THEN <<>>
    ELSE <<[name |-> <<"b">>, val |-> ObjVal(KeptMembers(x, 1))]>>

\* UnprefixedResults is the result of the run without a prefix
UnprefixedRun ==
    (pc = "done" /\ inp.fam = "prefix" /\ inp.hdr = PrefixDecl) =>
        results = UnprefixedResults(inp)

\* C24: what parse_file records for a declaration is what it records for the
\* same declaration with nothing before it, whatever text without a
\* declaration of its own comes before the keyword.
C24_PrefixIndependence ==
    (pc = "done" /\ inp.fam = "prefix") => results = UnprefixedResults(inp)

\* C25: positioned at a well-formed decimal literal read_number returns its
\* number and leaves the cursor just after the literal's last character,
\* whether a separator, whitespace, a closer or the end of input follows.
C25_NumberFollowIndependence ==
    (AtNumber /\ inp.kind = "dec" /\ NumberWellFormed) =>
        /\ read_number(index).ok
        /\ read_number(index).v = NumberValue
        /\ read_number(index).idx = index + Len(NumberLiteral(inp.kind, inp.vals))

====
